---- MODULE Spec2Model ----
\* Model of server/index.js: the in-memory job store, the start-sync handler,
\* the settings handler and the asynchronous sync runner (runRealSyncJob).
\*
\* Node runs each handler and each stretch of the runner between two awaits
\* to completion before anything else runs, so every action below is one
\* such stretch: a request handler, a timer callback, or the code of the
\* runner from the resumption of one await to the suspension at the next.
EXTENDS Integers, Sequences, FiniteSets, TLC

\* ------------------------------------------------------------------ bounds
\* Total number of product codes over all accepted submissions.
MaxCodes == 2
\* Longest list of conditional rules handed to the margin evaluator.
MaxRules == 2
\* Largest number of variants of a product handed to the transformer.
MaxVariants == 3

\* ------------------------------------------------------- JavaScript values
\* A string is a sequence of one-character strings. A value that may be
\* undefined carries a def flag; !v is true of undefined and of "".
Str(chars) == [def |-> TRUE, s |-> chars]
Undefined == [def |-> FALSE, s |-> <<>>]
Truthy(v) == v.def /\ v.s # <<>>

Null == "null"

LowerOf(c) ==
    CASE c = "P" -> "p"
      [] c = "E" -> "e"
      [] c = "N" -> "n"
      [] c = "M" -> "m"
      [] OTHER -> c

toLowerCase(s) == [i \in 1..Len(s) |-> LowerOf(s[i])]

\* String.prototype.includes: sub occurs in s as a contiguous run.
includes(s, sub) ==
    \E k \in 0..(Len(s) - Len(sub)) :
        \A i \in 1..Len(sub) : s[k + i] = sub[i]

\* ------------------------------------------------------ pricing rule engine
\* Variant of checkCondition: the guard on empty values is applied to the
\* two positive operators only.
checkCondition_negativesUnguarded(productValue, operator, ruleValue) ==
    LET prodVal == toLowerCase(productValue.s)
        ruleVal == toLowerCase(ruleValue.s)
        empty == ~Truthy(productValue) \/ ~Truthy(ruleValue)
    IN CASE operator = "is" -> ~empty /\ prodVal = ruleVal
         [] operator = "is_not" -> prodVal # ruleVal
         [] operator = "contains" -> ~empty /\ includes(prodVal, ruleVal)
         [] operator = "does_not_contain" -> ~includes(prodVal, ruleVal)
         [] OTHER -> FALSE

checkCondition(productValue, operator, ruleValue) ==
    IF ~Truthy(productValue) \/ ~Truthy(ruleValue) THEN FALSE
    ELSE LET prodVal == toLowerCase(productValue.s)
             ruleVal == toLowerCase(ruleValue.s)
         IN CASE operator = "is" -> prodVal = ruleVal
              [] operator = "is_not" -> prodVal # ruleVal
              [] operator = "contains" -> includes(prodVal, ruleVal)
              [] operator = "does_not_contain" -> ~includes(prodVal, ruleVal)
              [] OTHER -> FALSE

\* The value a rule looks at: the supplier category, or the supplier name
\* with supplier_name as fallback.
RuleProductValue(product, rule) ==
    IF rule.conditionField = "category"
    THEN product.supplier_category
    ELSE IF Truthy(product.supplier) THEN product.supplier
         ELSE product.supplier_name

RECURSIVE FirstMatch(_, _, _)
FirstMatch(product, conditionalRules, i) ==
    IF i > Len(conditionalRules) THEN 0
    ELSE IF checkCondition(RuleProductValue(product, conditionalRules[i]),
                           conditionalRules[i].conditionOperator,
                           conditionalRules[i].conditionValue)
         THEN i
         ELSE FirstMatch(product, conditionalRules, i + 1)

getApplicableMargin(product, rules) ==
    LET m == FirstMatch(product, rules.conditionalRules, 1)
    IN IF m = 0 THEN rules.defaultMargin ELSE rules.conditionalRules[m].margin

\* ------------------------------------------------------- product transformer
\* Number.prototype.toFixed(2) of an amount held in hundredths: the digits
\* before the point, then exactly two digits after it.
toFixed2(hundredths) ==
    <<hundredths \div 100, ".", (hundredths % 100) \div 10, hundredths % 10>>

\* basePrice * (1 + margin / 100), in hundredths.
salePrice(basePrice, margin) == basePrice * 100 + basePrice * margin

\* firstPriceBreak ? firstPriceBreak.price : 0
basePriceOf(priced) == IF priced.hasPrice THEN priced.price ELSE 0

RECURSIVE Distinct(_)
\* The members of a sequence, each once, in first-seen order (the insertion
\* order of a Map's keys and of a Set's values).
Distinct(seq) ==
    IF seq = <<>> THEN <<>>
    ELSE LET front == Distinct(SubSeq(seq, 1, Len(seq) - 1))
             last == seq[Len(seq)]
         IN IF \E i \in 1..Len(front) : front[i] = last
            THEN front ELSE Append(front, last)

RECURSIVE AllEntries(_)
\* Object.entries of every variant's attrs, variant after variant.
AllEntries(variants) ==
    IF variants = <<>> THEN <<>>
    ELSE variants[1].attrs \o AllEntries(Tail(variants))

SelectValues(entries, name) ==
    LET hits == SelectSeq(entries, LAMBDA e : e[1] = name)
    IN [i \in 1..Len(hits) |-> hits[i][2]]

wooAttributes(variants) ==
    LET entries == AllEntries(variants)
        names == Distinct([i \in 1..Len(entries) |-> entries[i][1]])
    IN [i \in 1..Len(names) |->
          [name |-> names[i], position |-> i - 1, visible |-> TRUE,
           variation |-> TRUE,
           options |-> Distinct(SelectValues(entries, names[i]))]]

commonData(product) ==
    [name |-> product.name,
     sku |-> product.code,
     description |-> IF Truthy(product.description_html)
                     THEN product.description_html ELSE product.description,
     short_description |-> IF Truthy(product.short_description)
                           THEN product.short_description ELSE Str(<<>>),
     \* img.url || img
     images |-> [i \in 1..Len(product.images.items) |->
                    [src |-> IF "url" \in DOMAIN product.images.items[i]
                                /\ Truthy(product.images.items[i].url)
                             THEN product.images.items[i].url
                             ELSE product.images.items[i]]],
     categories |-> IF Truthy(product.supplier_category)
                    THEN <<[name |-> product.supplier_category]>> ELSE <<>>]

\* Variant of hasVariants: a single variant already makes a product variable.
hasVariants_nonEmpty(product) == Len(product.variants) > 0

hasVariants(product) == Len(product.variants) > 1

\* The cases in which transformProductForWoo throws a TypeError: images is
\* undefined (product.images.map), or the job's settings carry no rules
\* (rules.conditionalRules of undefined).
transformThrows(product, jobSettings) ==
    ~product.images.def \/ ~jobSettings.hasRules

transformProductForWoo(product, jobSettings) ==
    IF ~hasVariants(product)
    THEN [productData |->
            [common |-> commonData(product), type |-> "simple",
             regular_price |->
                 toFixed2(salePrice(basePriceOf(product),
                          getApplicableMargin(product, jobSettings.rules))),
             attributes |-> <<>>],
          variationsData |-> <<>>]
    ELSE [productData |->
            [common |-> commonData(product), type |-> "variable",
             regular_price |-> <<>>,
             attributes |-> wooAttributes(product.variants)],
          variationsData |->
            [i \in 1..Len(product.variants) |->
               [sku |-> product.variants[i].sku,
                regular_price |->
                    toFixed2(salePrice(basePriceOf(product.variants[i]),
                             getApplicableMargin(product, jobSettings.rules))),
                attributes |->
                    [k \in 1..Len(product.variants[i].attrs) |->
                       [name |-> product.variants[i].attrs[k][1],
                        option |-> product.variants[i].attrs[k][2]]]]]]

\* ------------------------------------------------------------- job identity
RECURSIVE String(_)
\* String(n): the decimal digits of a positive integer.
String(n) == IF n < 10 THEN <<n>> ELSE Append(String(n \div 10), n % 10)

RECURSIVE padStart(_, _, _)
padStart(s, targetLength, fill) ==
    IF Len(s) >= targetLength THEN s
    ELSE padStart(<<fill>> \o s, targetLength, fill)

\* Variant of JobIdOf: the id is built from the first value of the counter.
JobIdOf_firstValue(n) == <<"J", "O", "B", "-">> \o padStart(String(1), 5, 0)

\* `JOB-${String(n).padStart(5, '0')}`
JobIdOf(n) == <<"J", "O", "B", "-">> \o padStart(String(n), 5, 0)

\* ------------------------------------------------------------ request inputs
CodeNames == <<"c1", "c2", "c3", "c4", "c5">>

\* req.body.productCodes: absent, or an array of n distinct codes (n >= 0).
NoCodes == [def |-> FALSE, items |-> <<>>]
CodeArray(n) == [def |-> TRUE, items |-> SubSeq(CodeNames, 1, n)]

\* productCodes?.length || 0
LengthOrZero(productCodes) ==
    IF productCodes.def THEN Len(productCodes.items) ELSE 0

\* req.body.apiConfig
NoApiConfig == [def |-> FALSE, url |-> Undefined, token |-> Undefined]
ApiConfig == [def |-> TRUE, url |-> Str(<<"u">>), token |-> Str(<<"t">>)]
\* Supplier configurations whose url is a path, not an absolute URL.
ApiConfigPathA == [ApiConfig EXCEPT !.url = Str(<<"/", "a">>)]
ApiConfigPathB == [ApiConfig EXCEPT !.url = Str(<<"/", "b">>)]

\* req.body.wooConfig: absent, complete, or an object without a url.
NoWooConfig ==
    [def |-> FALSE, url |-> Undefined, consumerKey |-> Undefined,
     consumerSecret |-> Undefined]
WooConfig ==
    [def |-> TRUE, url |-> Str(<<"w">>), consumerKey |-> Str(<<"k">>),
     consumerSecret |-> Str(<<"s">>)]
WooConfigNoUrl == [WooConfig EXCEPT !.url = Undefined]

\* Margin rules. The job's rules differ from both values of the global rules.
PenRule ==
    [conditionField |-> "category", conditionOperator |-> "is",
     conditionValue |-> Str(<<"p", "e", "n">>), margin |-> 10]
DefaultRules == [defaultMargin |-> 30, conditionalRules |-> <<>>]
UpdatedRules == [defaultMargin |-> 50, conditionalRules |-> <<>>]
JobRules == [defaultMargin |-> 20, conditionalRules |-> <<PenRule>>]

\* req.body.settings of start-sync
NoJobSettings == [def |-> FALSE, hasRules |-> FALSE, rules |-> DefaultRules]
JobSettings == [def |-> TRUE, hasRules |-> TRUE, rules |-> JobRules]

\* The module-level settings object at start-up.
DefaultSettings ==
    [rules |-> DefaultRules,
     mappings |-> [categories |-> <<>>, fields |-> <<>>],
     notifications |-> [email |-> Str(<<>>), onSuccess |-> FALSE,
                        onFailure |-> TRUE],
     advanced |-> [requestsPerMinute |-> 60]]

\* Bodies of POST /api/settings: a new rule set.
SettingsBodies == {[rules |-> UpdatedRules]}

\* { ...a, ...b }
ShallowMerge(a, b) ==
    [k \in DOMAIN a \cup DOMAIN b |-> IF k \in DOMAIN b THEN b[k] ELSE a[k]]

\* new Date().toISOString(): the model keeps no clock.
Timestamp == "timestamp"

\* No response has been sent yet.
NoResponse == [status |-> 0, body |-> <<>>]

VARIABLES
    jobs,        \* the store: job id -> job record
    jobCounter,  \* the next sequence number
    settings,    \* the module-level settings object
    runner,      \* per job: where its timer / runRealSyncJob stands
    calls,       \* per job: the external calls issued so far, with outcome
    response,    \* the last HTTP response sent by a handler
    evalArgs,    \* the arguments of a function evaluated on its own
    evalResult   \* the value that evaluation returned

vars == <<jobs, jobCounter, settings, runner, calls, response, evalArgs,
          evalResult>>

\* No function is evaluated on its own; no evaluation has returned yet.
NoArgs == [fn |-> "none"]
NoResult == [returned |-> FALSE]

\* The module-level state when the server starts.
ServerInit ==
    /\ jobs = <<>>
    /\ jobCounter = 1
    /\ settings = DefaultSettings
    /\ runner = <<>>
    /\ calls = <<>>
    /\ response = NoResponse

Init ==
    /\ ServerInit
    /\ evalArgs = NoArgs
    /\ evalResult = NoResult

\* ---------------------------------------------------------- request handlers
\* POST /api/settings
PostSettings(body) ==
    /\ settings' = ShallowMerge(settings, body)
    /\ response' = [status |-> 200, body |-> settings']
    /\ UNCHANGED <<jobs, jobCounter, runner, calls, evalArgs, evalResult>>

\* const { apiConfig: ac, wooConfig: wc, settings: s, ...jobForResponse } = newJob
jobForResponse(job) ==
    [k \in DOMAIN job \ {"apiConfig", "wooConfig", "settings"} |-> job[k]]

newJob(id, kind, total, productCodes, apiConfig, wooConfig, jobSettings) ==
    [id |-> id, kind |-> kind, status |-> "queued", total |-> total,
     done |-> 0, started |-> Timestamp, error |-> Null, logs |-> <<>>,
     productCodes |-> productCodes, apiConfig |-> apiConfig,
     wooConfig |-> wooConfig, settings |-> jobSettings]

\* Codes accepted so far, over all jobs.
CodesAccepted ==
    LET RECURSIVE Sum(_)
        Sum(S) == IF S = {} THEN 0
                  ELSE LET x == CHOOSE x \in S : TRUE
                       IN jobs[x].total + Sum(S \ {x})
    IN Sum(DOMAIN jobs)

\* Variant of startSyncError: the check of total === 0 is missing.
startSyncError_noEmptyCheck(total, apiConfig, wooConfig, jobSettings) ==
    IF ~apiConfig.def \/ ~wooConfig.def \/ ~jobSettings.def
    THEN "API, WooCommerce, and Settings configurations are required to start a sync."
    ELSE Null

\* The validation of start-sync: which error it answers, if any.
startSyncError(total, apiConfig, wooConfig, jobSettings) ==
    IF ~apiConfig.def \/ ~wooConfig.def \/ ~jobSettings.def
    THEN "API, WooCommerce, and Settings configurations are required to start a sync."
    ELSE IF total = 0 THEN "No products selected for sync."
    ELSE Null

\* POST /api/woo/start-sync
StartSync(body) ==
    LET total == LengthOrZero(body.productCodes)
        err == startSyncError(total, body.apiConfig, body.wooConfig,
                              body.settings)
        id == JobIdOf(jobCounter)
        job == newJob(id, body.kind, total, body.productCodes, body.apiConfig,
                      body.wooConfig, body.settings)
    IN IF err # Null
       THEN /\ response' = [status |-> 400, body |-> [error |-> err]]
            /\ UNCHANGED <<jobs, jobCounter, settings, runner, calls,
                           evalArgs, evalResult>>
       ELSE /\ CodesAccepted + total <= MaxCodes
            /\ jobCounter' = jobCounter + 1
            /\ jobs' = [k \in DOMAIN jobs \cup {id} |->
                           IF k = id THEN job ELSE jobs[k]]
            \* setTimeout(..., 1000)
            /\ runner' = [k \in DOMAIN runner \cup {id} |->
                             IF k = id THEN [pc |-> "timer"] ELSE runner[k]]
            /\ calls' = [k \in DOMAIN calls \cup {id} |->
                            IF k = id THEN <<>> ELSE calls[k]]
            /\ response' = [status |-> 201, body |-> jobForResponse(job)]
            /\ UNCHANGED <<settings, evalArgs, evalResult>>

\* Names every object inherits from Object.prototype, as ids of a request.
InheritedNames ==
    {<<"c", "o", "n", "s", "t", "r", "u", "c", "t", "o", "r">>,
     <<"_", "_", "p", "r", "o", "t", "o", "_", "_">>}

\* jobs[req.params.id] on the object literal jobs: an own property (a job),
\* a property inherited from Object.prototype (a function or an object that
\* is no job), or undefined.
lookupJob(id) ==
    IF id \in DOMAIN jobs THEN [found |-> "own", job |-> jobs[id]]
    ELSE IF id \in InheritedNames THEN [found |-> "inherited"]
    ELSE [found |-> "none"]

NotFound == [status |-> 404, body |-> [error |-> "Job not found."]]

\* const { logs, productCodes, apiConfig, wooConfig, settings,
\*         ...jobWithoutDetails } = job
jobWithoutDetails(job) ==
    [k \in DOMAIN job \ {"logs", "productCodes", "apiConfig", "wooConfig",
                         "settings"} |-> job[k]]

\* GET /api/jobs/:id. An inherited value is truthy and has no own enumerable
\* property: the answer is 200 with an empty object.
getJob(id) ==
    LET l == lookupJob(id)
    IN CASE l.found = "none" -> NotFound
         [] l.found = "inherited" -> [status |-> 200, body |-> <<>>]
         [] OTHER -> [status |-> 200, body |-> jobWithoutDetails(l.job)]

\* GET /api/jobs/:id/logs. The logs of an inherited value are undefined: the
\* answer is 200 with nothing in it.
getJobLogs(id) ==
    LET l == lookupJob(id)
    IN CASE l.found = "none" -> NotFound
         [] l.found = "inherited" -> [status |-> 200, body |-> <<>>]
         [] OTHER -> [status |-> 200, body |-> l.job.logs]

\* ------------------------------------------------ external collaborators
\* What the supplier catalog may hold for a code. The catalog answers a
\* lookup with any of these, whatever the code.
ProductDefaults ==
    [name |-> Str(<<>>), code |-> Str(<<>>),
     description_html |-> Undefined, description |-> Str(<<"d">>),
     short_description |-> Undefined,
     images |-> [def |-> TRUE, items |-> <<Str(<<"i">>), [url |-> Str(<<"j">>)]>>],
     supplier_category |-> Undefined, supplier |-> Undefined,
     supplier_name |-> Undefined,
     hasPrice |-> TRUE, price |-> 10, variants |-> <<>>]

PenProduct ==
    [ProductDefaults EXCEPT !.name = Str(<<"P", "e", "n">>),
                            !.code = Str(<<"p">>),
                            !.supplier_category = Str(<<"P", "E", "N">>)]

MugProduct ==
    [ProductDefaults EXCEPT
        !.name = Str(<<"M", "u", "g">>),
        !.code = Str(<<"m">>),
        !.supplier_category = Str(<<"M", "u", "g">>),
        !.variants =
            <<[sku |-> Str(<<"m", "1">>), hasPrice |-> TRUE, price |-> 5,
               attrs |-> <<<<"color", "red">>, <<"size", "L">>>>],
              [sku |-> Str(<<"m", "2">>), hasPrice |-> FALSE, price |-> 0,
               attrs |-> <<<<"color", "red">>, <<"size", "S">>>>]>>]

\* A catalog item without an images field.
BareProduct ==
    [ProductDefaults EXCEPT !.name = Str(<<"b">>),
                            !.images = [def |-> FALSE, items |-> <<>>]]

Catalog == {PenProduct, MugProduct, BareProduct}

\* Thrown values. An error of the storefront client carries the response;
\* an Error thrown by this code or by the runtime carries only a message.
PlainError(message) ==
    [hasResponse |-> FALSE, dataDef |-> FALSE, dataMessage |-> Undefined,
     message |-> message]
ResponseError(dataDef, dataMessage) ==
    [hasResponse |-> TRUE, dataDef |-> dataDef, dataMessage |-> dataMessage,
     message |-> <<"Request failed">>]

\* Outcomes of await getPromodataProduct(code, apiConfig)
FetchOutcomes ==
    {[kind |-> "status"], [kind |-> "empty"]}
        \cup {[kind |-> "item", item |-> p] : p \in Catalog}

\* The error getPromodataProduct throws for an outcome without an item.
fetchError(outcome, code) ==
    IF outcome.kind = "status"
    THEN PlainError(<<"Promodata API returned status", 500>>)
    ELSE PlainError(<<"Product with code", code, "not found in Promodata.">>)

\* Rejections of a storefront call: a response body with a message, a
\* response body without one, and a response whose body is null.
MessageError == ResponseError(TRUE, Str(<<"x">>))
NoMessageError == ResponseError(TRUE, Undefined)
NullDataError == ResponseError(FALSE, Undefined)

\* Outcomes of await wooApi.post("products", productData): resolved with the
\* created product (with or without an id), or rejected.
PostOutcomes ==
    {[ok |-> TRUE, id |-> 7, error |-> PlainError(<<>>)],
     [ok |-> TRUE, id |-> 0, error |-> PlainError(<<>>)]}
        \cup {[ok |-> FALSE, id |-> 0, error |-> e] :
                 e \in {MessageError, NullDataError}}

\* Outcomes of await wooApi.post(`products/${id}/variations/batch`, ...)
BatchOutcomes ==
    {[ok |-> TRUE, error |-> PlainError(<<>>)]}
        \cup {[ok |-> FALSE, error |-> e] :
                 e \in {NoMessageError, NullDataError}}

\* new WooCommerceRestApi(opt) throws unless url, consumerKey and
\* consumerSecret are all given.
wooApiThrows(wooConfig) ==
    ~Truthy(wooConfig.url) \/ ~Truthy(wooConfig.consumerKey)
        \/ ~Truthy(wooConfig.consumerSecret)

\* fetch(`${url}/products?code=${code}`, ...) builds a Request from the
\* string: a string that is no absolute URL (an absent or empty url, a path)
\* makes fetch reject at once, without any request being sent.
requestUrlParses(apiConfig) ==
    Truthy(apiConfig.url) /\ Head(apiConfig.url.s) # "/"

\* The TypeError of that rejection names the string it could not parse.
requestUrlError(apiConfig, code) ==
    PlainError(<<"Failed to parse URL from", apiConfig.url, "/products?code=",
                 code>>)

\* ------------------------------------------------------------ runRealSyncJob
\* error.response ? (error.response.data.message
\*                   || JSON.stringify(error.response.data)) : error.message
\* Reading .message of a null data throws inside the catch block.
errorMessageThrows(error) == error.hasResponse /\ ~error.dataDef

errorMessage(error) ==
    IF error.hasResponse
    THEN IF Truthy(error.dataMessage) THEN error.dataMessage.s
         ELSE <<"JSON.stringify(data)">>
    ELSE error.message

logEntry(code, status, message) ==
    [timestamp |-> Timestamp, itemId |-> code, status |-> status,
     message |-> message]

simpleMessage(productData) ==
    <<"Synced simple product", productData.common.name, "successfully.">>

variableMessage(productData, variationsData) ==
    <<"Synced variable product", productData.common.name, "with",
      Len(variationsData), "variations.">>

\* job.logs.push({ ..., status: 'success', ... })
pushSuccess(job, code, message) ==
    [job EXCEPT !.logs = Append(@, logEntry(code, "success", message))]

\* Variant of pushFailure: the catch block logs the failure and leaves the
\* error of the job alone.
pushFailure_logOnly(job, code, error) ==
    [job EXCEPT !.logs = Append(@, logEntry(code, "failed",
                                            <<"Error", errorMessage(error)>>))]

\* Variant of pushFailure: the catch block sets the error and logs nothing.
pushFailure_noLog(job, code, error) ==
    [job EXCEPT !.error = "One or more items failed to sync."]

\* Variant of pushFailure: the catch block also counts the item, which the
\* end of the iteration counts again.
pushFailure_countsDone(job, code, error) ==
    [job EXCEPT !.error = "One or more items failed to sync.",
                !.logs = Append(@, logEntry(code, "failed",
                                            <<"Error", errorMessage(error)>>)),
                !.done = @ + 1]

\* Variant of pushFailure: the error summary names the kind of the latest
\* failure instead of being one fixed text.
pushFailure_latestError(job, code, error) ==
    [job EXCEPT !.error = IF error.hasResponse THEN "Storefront error."
                          ELSE "Catalog error.",
                !.logs = Append(@, logEntry(code, "failed",
                                            <<"Error", errorMessage(error)>>))]

\* The catch block, when it does not throw: job.error = ...; job.logs.push(...)
pushFailure(job, code, error) ==
    [job EXCEPT !.error = "One or more items failed to sync.",
                !.logs = Append(@, logEntry(code, "failed",
                                            <<"Error", errorMessage(error)>>))]

\* job.done++
incrementDone(job) == [job EXCEPT !.done = @ + 1]

\* Variant of finishJob: the status looks at a failure flag shared by all
\* jobs.
finishJob_sharedFlag(job) ==
    [k \in DOMAIN job \cup {"ended"} |->
        CASE k = "status" ->
                 IF \E other \in DOMAIN jobs : jobs[other].error # Null
                 THEN "failed" ELSE "completed"
          [] k = "ended" -> Timestamp
          [] OTHER -> job[k]]

\* Variant of finishJob: the status does not look at job.error.
finishJob_alwaysCompleted(job) ==
    [k \in DOMAIN job \cup {"ended"} |->
        CASE k = "status" -> "completed"
          [] k = "ended" -> Timestamp
          [] OTHER -> job[k]]

\* job.status = job.error ? 'failed' : 'completed'; job.ended = ...
finishJob(job) ==
    [k \in DOMAIN job \cup {"ended"} |->
        CASE k = "status" -> IF job.error # Null THEN "failed" ELSE "completed"
          [] k = "ended" -> Timestamp
          [] OTHER -> job[k]]

\* Variant of rulesForJob: the runner reads the module-level settings.
rulesForJob_global(job, globalSettings) ==
    [def |-> TRUE, hasRules |-> TRUE, rules |-> globalSettings.rules]

\* The rules the runner hands to the transformer: those stored with the job.
rulesForJob(job, globalSettings) == job.settings

\* Variant of CodeAt: every iteration takes the first code.
CodeAt_first(job, i) == job.productCodes.items[1]

\* The code of iteration i of for (const code of job.productCodes).
CodeAt(job, i) == job.productCodes.items[i]

\* What a call that is pending, or whose answer the runner does not read,
\* has delivered.
NoReply == [read |-> FALSE]

\* Variant of SetCallResult: the runner goes on without awaiting the call,
\* which stays outstanding.
SetCallResult_notAwaited(id, result, reply) == calls

\* The last call of the job settles: its result, and what the runner takes
\* from the answer (the catalog answer, the id of the created parent, or the
\* error of a rejection).
SetCallResult(id, result, reply) ==
    [calls EXCEPT ![id][Len(calls[id])].result = result,
                  ![id][Len(calls[id])].reply = reply]

IssueCall(cs, id, call) == [cs EXCEPT ![id] = Append(@, call)]

\* The head of the for-of loop over job.productCodes, entered for item i with
\* the job record as it now stands: either the fetch for item i is issued and
\* the runner waits for it, or the codes are exhausted and the job finishes.
\* (getPromodataProduct throws at once when apiConfig is missing; start-sync
\* stores no job without apiConfig.) A fetch that rejects at once, because
\* its url does not parse, is caught in the same stretch of code: the item is
\* logged as failed and counted, and the runner pauses.
LoopHead(id, job, i, cs) ==
    IF i <= Len(job.productCodes.items) /\ ~requestUrlParses(job.apiConfig)
    THEN /\ jobs' = [jobs EXCEPT ![id] =
                incrementDone(pushFailure(job, CodeAt(job, i),
                    requestUrlError(job.apiConfig, CodeAt(job, i))))]
         /\ runner' = [runner EXCEPT ![id] = [pc |-> "delay", i |-> i]]
         /\ calls' = IssueCall(cs, id,
                [kind |-> "fetch", i |-> i, code |-> CodeAt(job, i),
                 url |-> job.apiConfig.url, token |-> job.apiConfig.token,
                 result |-> "failed", reply |-> NoReply])
    ELSE IF i <= Len(job.productCodes.items)
    THEN /\ jobs' = [jobs EXCEPT ![id] = job]
         /\ runner' = [runner EXCEPT ![id] = [pc |-> "fetch", i |-> i]]
         /\ calls' = IssueCall(cs, id,
                [kind |-> "fetch", i |-> i, code |-> CodeAt(job, i),
                 url |-> job.apiConfig.url, token |-> job.apiConfig.token,
                 result |-> "pending", reply |-> NoReply])
    ELSE /\ jobs' = [jobs EXCEPT ![id] = finishJob(job)]
         /\ runner' = [runner EXCEPT ![id] = [pc |-> "returned"]]
         /\ calls' = cs

\* The end of one iteration: job.done++ and the 200 ms pause.
EndOfItem(id, job, cs) ==
    /\ jobs' = [jobs EXCEPT ![id] = incrementDone(job)]
    /\ runner' = [runner EXCEPT ![id] = [pc |-> "delay", i |-> runner[id].i]]
    /\ calls' = cs

\* An error reaches the catch block of item runner[id].i.
Catch(id, error, cs) ==
    IF errorMessageThrows(error)
    THEN \* the TypeError leaves runRealSyncJob: its promise is rejected
         /\ runner' = [runner EXCEPT ![id] = [pc |-> "rejected"]]
         /\ calls' = cs
         /\ UNCHANGED jobs
    ELSE EndOfItem(id, pushFailure(jobs[id], CodeAt(jobs[id], runner[id].i),
                                   error), cs)

\* Variant of markRunning: the timer callback starts the runner without
\* touching the status.
markRunning_skipped(job) == job

\* jobs[newJob.id].status = 'running'
markRunning(job) == [job EXCEPT !.status = "running"]

\* The setTimeout callback of start-sync, and runRealSyncJob up to its first
\* await.
TimerFires(id) ==
    /\ id \in DOMAIN jobs
    /\ runner[id].pc = "timer"
    /\ LET job == markRunning(jobs[id])
       IN IF wooApiThrows(job.wooConfig)
          THEN /\ jobs' = [jobs EXCEPT ![id] = job]
               /\ runner' = [runner EXCEPT ![id] = [pc |-> "rejected"]]
               /\ UNCHANGED calls
          ELSE LoopHead(id, job, 1, calls)
    /\ UNCHANGED <<jobCounter, settings, response, evalArgs, evalResult>>

\* await getPromodataProduct(...) settles; on an item the runner transforms
\* it and issues the product creation.
FetchReturns(id, outcome) ==
    /\ id \in DOMAIN jobs
    /\ runner[id].pc = "fetch"
    /\ LET job == jobs[id]
           i == runner[id].i
       IN IF outcome.kind # "item"
          THEN Catch(id, fetchError(outcome, CodeAt(job, i)),
                     SetCallResult(id, "failed", outcome))
          ELSE LET promoProduct ==
                       [outcome.item EXCEPT !.supplier_name = outcome.item.supplier]
                   jobSettings == rulesForJob(job, settings)
                   t == transformProductForWoo(promoProduct, jobSettings)
               IN IF transformThrows(promoProduct, jobSettings)
                  THEN Catch(id, PlainError(<<"TypeError">>),
                             SetCallResult(id, "ok", outcome))
                  ELSE /\ runner' = [runner EXCEPT ![id] =
                              [pc |-> "product", i |-> i,
                               productData |-> t.productData,
                               variationsData |-> t.variationsData]]
                       /\ calls' = IssueCall(SetCallResult(id, "ok", outcome), id,
                              [kind |-> "product", i |-> i,
                               data |-> t.productData, result |-> "pending",
                               reply |-> NoReply])
                       /\ UNCHANGED jobs
    /\ UNCHANGED <<jobCounter, settings, response, evalArgs, evalResult>>

\* await wooApi.post("products", productData) settles.
PostReturns(id, outcome) ==
    /\ id \in DOMAIN jobs
    /\ runner[id].pc = "product"
    /\ LET job == jobs[id]
           r == runner[id]
           code == CodeAt(job, r.i)
       IN IF ~outcome.ok
          THEN Catch(id, outcome.error,
                     SetCallResult(id, "failed", outcome.error))
          ELSE IF Len(r.variationsData) = 0
          THEN EndOfItem(id, pushSuccess(job, code, simpleMessage(r.productData)),
                         SetCallResult(id, "ok", NoReply))
          ELSE IF outcome.id # 0 /\ Len(r.variationsData) > 0
          THEN /\ runner' = [runner EXCEPT ![id].pc = "batch"]
               /\ calls' = IssueCall(
                      SetCallResult(id, "ok", [id |-> outcome.id]), id,
                      [kind |-> "batch", i |-> r.i, parent |-> outcome.id,
                       create |-> r.variationsData, result |-> "pending",
                       reply |-> NoReply])
               /\ UNCHANGED jobs
          ELSE EndOfItem(id,
                   pushSuccess(job, code,
                               variableMessage(r.productData, r.variationsData)),
                   SetCallResult(id, "ok", [id |-> outcome.id]))
    /\ UNCHANGED <<jobCounter, settings, response, evalArgs, evalResult>>

\* await wooApi.post(`products/${parentProduct.id}/variations/batch`, ...)
\* settles.
BatchReturns(id, outcome) ==
    /\ id \in DOMAIN jobs
    /\ runner[id].pc = "batch"
    /\ LET job == jobs[id]
           r == runner[id]
       IN IF ~outcome.ok
          THEN Catch(id, outcome.error,
                     SetCallResult(id, "failed", outcome.error))
          ELSE EndOfItem(id,
                   pushSuccess(job, CodeAt(job, r.i),
                               variableMessage(r.productData, r.variationsData)),
                   SetCallResult(id, "ok", NoReply))
    /\ UNCHANGED <<jobCounter, settings, response, evalArgs, evalResult>>

\* The 200 ms pause ends: the next iteration, or the end of the run.
DelayEnds(id) ==
    /\ id \in DOMAIN jobs
    /\ runner[id].pc = "delay"
    /\ LoopHead(id, jobs[id], runner[id].i + 1, calls)
    /\ UNCHANGED <<jobCounter, settings, response, evalArgs, evalResult>>

\* ------------------------------------------------------------ specification
\* Bodies of POST /api/woo/start-sync: the well-formed ones, with a complete
\* storefront configuration or one without a url, and the ones that lack the
\* product codes (absent or empty) or one of the three configurations.
GoodBody(n, wooConfig) ==
    [kind |-> "products", productCodes |-> CodeArray(n),
     apiConfig |-> ApiConfig, wooConfig |-> wooConfig, settings |-> JobSettings]

AcceptableBodies ==
    {GoodBody(n, w) : n \in 1..MaxCodes, w \in {WooConfig, WooConfigNoUrl}}

RejectableBodies ==
    {[GoodBody(1, WooConfig) EXCEPT !.productCodes = NoCodes],
     [GoodBody(1, WooConfig) EXCEPT !.productCodes = CodeArray(0)],
     [GoodBody(1, WooConfig) EXCEPT !.apiConfig = NoApiConfig],
     [GoodBody(1, WooConfig) EXCEPT !.wooConfig = NoWooConfig],
     [GoodBody(1, WooConfig) EXCEPT !.settings = NoJobSettings]}

StartSyncBodies == AcceptableBodies \cup RejectableBodies

\* Well-formed bodies whose supplier url is a path.
PathUrlBodies ==
    {[GoodBody(n, WooConfig) EXCEPT !.apiConfig = a] :
        n \in 1..MaxCodes, a \in {ApiConfigPathA, ApiConfigPathB}}

Next ==
    \/ \E body \in SettingsBodies : PostSettings(body)
    \/ \E body \in StartSyncBodies : StartSync(body)
    \/ \E id \in DOMAIN jobs : TimerFires(id)
    \/ \E id \in DOMAIN jobs, outcome \in FetchOutcomes : FetchReturns(id, outcome)
    \/ \E id \in DOMAIN jobs, outcome \in PostOutcomes : PostReturns(id, outcome)
    \/ \E id \in DOMAIN jobs, outcome \in BatchOutcomes : BatchReturns(id, outcome)
    \/ \E id \in DOMAIN jobs : DelayEnds(id)

Spec == Init /\ [][Next]_vars

\* Every timer fires and every external call settles, for every job.
SeqNumbers == 1..MaxCodes

Fairness ==
    \A n \in SeqNumbers :
        /\ WF_vars(TimerFires(JobIdOf(n)))
        /\ WF_vars(\E o \in FetchOutcomes : FetchReturns(JobIdOf(n), o))
        /\ WF_vars(\E o \in PostOutcomes : PostReturns(JobIdOf(n), o))
        /\ WF_vars(\E o \in BatchOutcomes : BatchReturns(JobIdOf(n), o))
        /\ WF_vars(DelayEnds(JobIdOf(n)))

FairSpec == Spec /\ Fairness

\* The same server, also given supplier urls that are paths.
PathUrlNext ==
    \/ Next
    \/ \E body \in PathUrlBodies : StartSync(body)

PathUrlSpec == Init /\ [][PathUrlNext]_vars

\* ------------------------------------------- the margin evaluator on its own
\* Products as the evaluator sees them: the supplier category absent, empty
\* or given; the supplier given by name, by the fallback field, or not.
MarginProducts ==
    {[ProductDefaults EXCEPT !.supplier_category = c, !.supplier = n[1],
                             !.supplier_name = n[2]] :
        c \in {Undefined, Str(<<>>), Str(<<"P", "E", "N">>),
                Str(<<"M", "u", "g">>)},
        n \in {<<Undefined, Undefined>>, <<Str(<<"N">>), Undefined>>,
                <<Undefined, Str(<<"M">>)>>}}

Operators == {"is", "is_not", "contains", "does_not_contain"}

ConditionValues == {Undefined, Str(<<>>), Str(<<"p", "e", "n">>), Str(<<"n">>)}

\* Conditions of a rule: field, operator and comparison value. On the
\* category every operator meets every value; on the supplier the two
\* equality operators meet an absent value and a name.
Conditions ==
    [conditionField : {"category"}, conditionOperator : Operators,
     conditionValue : ConditionValues]
        \cup [conditionField : {"supplier"},
              conditionOperator : {"is", "is_not"},
              conditionValue : {Undefined, Str(<<"n">>)}]

\* Rule lists of up to MaxRules rules; the rule at position i has margin
\* 10 * i, the default margin is 5.
RuleLists ==
    UNION {[1..n -> Conditions] : n \in 0..MaxRules}

RulesOf(conditions) ==
    [defaultMargin |-> 5,
     conditionalRules |->
        [i \in 1..Len(conditions) |->
            [conditionField |-> conditions[i].conditionField,
             conditionOperator |-> conditions[i].conditionOperator,
             conditionValue |-> conditions[i].conditionValue,
             margin |-> 10 * i]]]

MarginInit ==
    /\ ServerInit
    /\ evalArgs \in {[fn |-> "getApplicableMargin", product |-> p,
                       rules |-> RulesOf(c)] :
                         p \in MarginProducts, c \in RuleLists}
    /\ evalResult = NoResult

\* getApplicableMargin(product, rules) is called and returns.
EvaluateMargin ==
    /\ evalArgs.fn = "getApplicableMargin"
    /\ evalResult = NoResult
    /\ evalResult' = [returned |-> TRUE,
                      value |-> getApplicableMargin(evalArgs.product,
                                                    evalArgs.rules)]
    /\ UNCHANGED <<jobs, jobCounter, settings, runner, calls, response,
                   evalArgs>>

MarginSpec == MarginInit /\ [][EvaluateMargin]_vars

\* ---------------------------------------------- the transformer on its own
\* Object.entries(variant.attrs) of a variant: no attribute, one, or two in
\* either order, with values that repeat across variants and values that do
\* not.
AttrsChoices ==
    {<<>>,
     <<<<"color", "red">>>>,
     <<<<"color", "red">>, <<"size", "L">>>>,
     <<<<"size", "L">>, <<"color", "red">>>>,
     <<<<"color", "blue">>, <<"size", "L">>>>,
     <<<<"size", "S">>, <<"color", "red">>>>}

\* Products of zero to MaxVariants variants; the i-th variant has sku i and,
\* except the first, no price of its own.
VariantLists == UNION {[1..n -> AttrsChoices] : n \in 0..MaxVariants}

ProductWith(attrsList) ==
    [MugProduct EXCEPT !.variants =
        [i \in 1..Len(attrsList) |->
            [sku |-> Str(<<"m", i>>), hasPrice |-> (i = 1),
             price |-> IF i = 1 THEN 5 ELSE 0, attrs |-> attrsList[i]]]]

TransformInit ==
    /\ ServerInit
    /\ evalArgs \in {[fn |-> "transformProductForWoo",
                      product |-> ProductWith(a),
                      jobSettings |-> JobSettings] : a \in VariantLists}
    /\ evalResult = NoResult

\* transformProductForWoo(product, jobSettings) is called and returns.
EvaluateTransform ==
    /\ evalArgs.fn = "transformProductForWoo"
    /\ evalResult = NoResult
    /\ evalResult' = [returned |-> TRUE,
                      value |-> transformProductForWoo(evalArgs.product,
                                                       evalArgs.jobSettings)]
    /\ UNCHANGED <<jobs, jobCounter, settings, runner, calls, response,
                   evalArgs>>

TransformSpec == TransformInit /\ [][EvaluateTransform]_vars

\* ------------------------------------------------------------------ helpers
TerminalStatuses == {"completed", "failed"}
IsTerminal(job) == job.status \in TerminalStatuses
HasFailedEntry(job) == \E i \in 1..Len(job.logs) : job.logs[i].status = "failed"
ItemIds(job) == [i \in 1..Len(job.logs) |-> job.logs[i].itemId]
CallsOf(id, i) == {k \in 1..Len(calls[id]) : calls[id][k].i = i}
\* An external call made for item i of the job was rejected.
CallFailedAt(id, i) == \E k \in CallsOf(id, i) : calls[id][k].result = "failed"
\* The fetch of item i delivered a product and no product creation followed:
\* the transformer threw.
TransformThrewAt(id, i) ==
    /\ \E k \in CallsOf(id, i) :
          calls[id][k].kind = "fetch" /\ calls[id][k].result = "ok"
    /\ ~\E k \in CallsOf(id, i) : calls[id][k].kind = "product"
FetchedCodes(id) ==
    LET fs == SelectSeq(calls[id], LAMBDA c : c.kind = "fetch")
    IN [k \in 1..Len(fs) |-> fs[k].code]

\* ------------------------------------------------------------------- claims
\* C1: in every state (between any two steps of any runner, and after the
\* run) the number of log entries of each job equals its done counter.
C1_LogsLengthEqualsDone ==
    \A id \in DOMAIN jobs : Len(jobs[id].logs) = jobs[id].done

\* A job in the middle of its run: one item of two logged, one to go.
C1_Witness ==
    \E id \in DOMAIN jobs :
        /\ jobs[id].status = "running"
        /\ jobs[id].total = 2
        /\ jobs[id].done = 1
        /\ runner[id].pc = "fetch"

\* C2: a job enters the store with done = 0; no step decreases done; done
\* never exceeds total; total is the length of the submitted product-code
\* list and never changes.
C2_DoneMonotoneBounded ==
    [][\A id \in DOMAIN jobs' :
          /\ jobs'[id].done <= jobs'[id].total
          /\ jobs'[id].total = Len(jobs'[id].productCodes.items)
          /\ id \notin DOMAIN jobs => jobs'[id].done = 0
          /\ id \in DOMAIN jobs =>
                /\ jobs'[id].done >= jobs[id].done
                /\ jobs'[id].total = jobs[id].total]_vars

\* A job whose counter has reached its total of two.
C2_Witness ==
    \E id \in DOMAIN jobs : jobs[id].total = 2 /\ jobs[id].done = 2

\* C3: a job in a terminal state is failed if and only if one of its log
\* entries is failed, and completed otherwise.
C3_FailedIffFailedEntry ==
    \A id \in DOMAIN jobs :
        IsTerminal(jobs[id]) =>
            /\ jobs[id].status = "failed" <=> HasFailedEntry(jobs[id])
            /\ jobs[id].status = "completed" <=> ~HasFailedEntry(jobs[id])

\* A finished job with a success entry followed by a failed one.
C3_Witness ==
    /\ \E id \in DOMAIN jobs :
          /\ jobs[id].status = "failed"
          /\ Len(jobs[id].logs) = 2
          /\ jobs[id].logs[1].status = "success"
          /\ jobs[id].logs[2].status = "failed"

\* C4 as stated: in a terminal state done = total, the itemIds of the logs
\* are the product codes position by position, and the failed entries sit
\* exactly at the positions whose fetch or push was rejected.
C4_FailedOnlyWhereCallFailed ==
    \A id \in DOMAIN jobs :
        IsTerminal(jobs[id]) =>
            /\ jobs[id].done = jobs[id].total
            /\ ItemIds(jobs[id]) = jobs[id].productCodes.items
            /\ \A i \in 1..Len(jobs[id].logs) :
                  jobs[id].logs[i].status = "failed" <=> CallFailedAt(id, i)

\* C4, amended: in a terminal state done = total, every code was fetched
\* exactly once in input order, the itemIds of the logs are the product codes
\* position by position, every entry is success or failed, and the failed
\* entries sit exactly at the positions whose fetch, transformation or push
\* raised an error.
C4_AttemptedOnceInOrder ==
    \A id \in DOMAIN jobs :
        IsTerminal(jobs[id]) =>
            /\ jobs[id].done = jobs[id].total
            /\ FetchedCodes(id) = jobs[id].productCodes.items
            /\ ItemIds(jobs[id]) = jobs[id].productCodes.items
            /\ \A i \in 1..Len(jobs[id].logs) :
                  /\ jobs[id].logs[i].status \in {"success", "failed"}
                  /\ jobs[id].logs[i].status = "failed" <=>
                        (CallFailedAt(id, i) \/ TransformThrewAt(id, i))

\* A finished job of two codes: the lookup of the first succeeded and its
\* transformation threw, the second was created in the storefront.
C4_Witness ==
    \E id \in DOMAIN jobs :
        /\ IsTerminal(jobs[id])
        /\ jobs[id].total = 2
        /\ TransformThrewAt(id, 1)
        /\ ~CallFailedAt(id, 1)
        /\ jobs[id].logs[1].status = "failed"
        /\ jobs[id].logs[2].status = "success"

\* C5: an error raised while a code is processed (a rejected fetch or
\* storefront call, an exception of the transformer) is recorded as the
\* failed log entry of that code and does not leave the runner.
C5_ItemErrorsCaught ==
    \A id \in DOMAIN jobs :
        \A i \in 1..jobs[id].total :
            (CallFailedAt(id, i) \/ TransformThrewAt(id, i)) =>
                /\ runner[id].pc # "rejected"
                /\ Len(jobs[id].logs) >= i
                /\ jobs[id].logs[i].status = "failed"
                /\ jobs[id].logs[i].itemId = CodeAt(jobs[id], i)

\* C6: under fair scheduling of timers and external calls, every accepted
\* job eventually has a terminal status.
C6_EveryJobTerminates ==
    \A n \in SeqNumbers :
        (JobIdOf(n) \in DOMAIN jobs)
            ~> (JobIdOf(n) \in DOMAIN jobs /\ IsTerminal(jobs[JobIdOf(n)]))

HasEnded(job) == "ended" \in DOMAIN job

\* C7: a job enters the store queued and without end timestamp; its status
\* only moves queued -> running -> completed or failed; the end timestamp is
\* present only with a terminal status; once it is present the job record
\* never changes again.
C7_StatusLifecycle ==
    [][\A id \in DOMAIN jobs' :
          /\ HasEnded(jobs'[id]) => IsTerminal(jobs'[id])
          /\ id \notin DOMAIN jobs =>
                jobs'[id].status = "queued" /\ ~HasEnded(jobs'[id])
          /\ id \in DOMAIN jobs =>
                /\ \/ jobs'[id].status = jobs[id].status
                   \/ jobs[id].status = "queued" /\ jobs'[id].status = "running"
                   \/ jobs[id].status = "running" /\ IsTerminal(jobs'[id])
                /\ HasEnded(jobs[id]) => jobs'[id] = jobs[id]]_vars

\* A job that has ended as failed, next to a job that is still running.
C7_Witness ==
    \E id, other \in DOMAIN jobs :
        /\ HasEnded(jobs[id])
        /\ jobs[id].status = "failed"
        /\ jobs[other].status = "running"

PayloadsUnder(jobSettings) ==
    {transformProductForWoo([p EXCEPT !.supplier_name = p.supplier], jobSettings) :
        p \in {q \in Catalog : ~transformThrows(q, jobSettings)}}

\* The calls of a job before a step; none if the step creates the job.
CallsBefore(id) == IF id \in DOMAIN calls THEN calls[id] ELSE <<>>

\* C9: no step changes the productCodes, apiConfig, wooConfig or settings of
\* a job in the store; no step changes what an earlier call sent; and every
\* payload a step sends to the storefront for a job is the one the
\* transformer computes under the settings stored with that job. (A step
\* that leaves the store and the calls as they are has nothing to show.)
C9_JobInputsFixed ==
    [][UNCHANGED <<jobs, calls>> \/ \A id \in DOMAIN jobs' :
          /\ id \in DOMAIN jobs =>
                /\ jobs'[id].productCodes = jobs[id].productCodes
                /\ jobs'[id].apiConfig = jobs[id].apiConfig
                /\ jobs'[id].wooConfig = jobs[id].wooConfig
                /\ jobs'[id].settings = jobs[id].settings
          /\ Len(calls'[id]) >= Len(CallsBefore(id))
          /\ \A k \in 1..Len(CallsBefore(id)) :
                [calls'[id][k] EXCEPT !.result = "settled", !.reply = NoReply]
                    = [calls[id][k] EXCEPT !.result = "settled",
                                           !.reply = NoReply]
          /\ \A k \in (Len(CallsBefore(id)) + 1)..Len(calls'[id]) :
                /\ calls'[id][k].kind = "product" =>
                      \E t \in PayloadsUnder(jobs'[id].settings) :
                          calls'[id][k].data = t.productData
                /\ calls'[id][k].kind = "batch" =>
                      \E t \in PayloadsUnder(jobs'[id].settings) :
                          calls'[id][k].create = t.variationsData]_vars

\* The global rules were replaced while a job was running, and the job then
\* sent a product to the storefront.
C9_Witness ==
    \E id \in DOMAIN jobs :
        /\ settings.rules = UpdatedRules
        /\ runner[id].pc = "delay"
        /\ \E k \in 1..Len(calls[id]) : calls[id][k].kind = "product"

\* C10: a step that answers 400 changes neither the store, the counter, the
\* scheduled runners nor the settings; and no job in the store comes from a
\* body without product codes or without one of the three configurations:
\* as many sequence numbers have been handed out as there are stored jobs,
\* and the runners scheduled are those of the stored jobs.
C10_RejectedLeavesNoTrace ==
    [][/\ (response' # response /\ response'.status = 400) =>
              UNCHANGED <<jobs, jobCounter, settings, runner, calls>>
       /\ \A id \in DOMAIN jobs' :
              /\ jobs'[id].total >= 1
              /\ jobs'[id].productCodes.def
              /\ jobs'[id].apiConfig.def
              /\ jobs'[id].wooConfig.def
              /\ jobs'[id].settings.def
       /\ jobCounter' = Cardinality(DOMAIN jobs') + 1
       /\ DOMAIN runner' = DOMAIN jobs']_vars

\* A submission was answered 400 while an earlier job was running.
C10_Witness ==
    /\ response.status = 400
    /\ jobCounter = 2
    /\ \E id \in DOMAIN jobs : jobs[id].status = "running"

SummaryFields == {"id", "kind", "status", "total", "done", "started", "error"}

\* C11: the body of a 201 answer to start-sync is the summary of the new job:
\* exactly the fields id, kind, status, total, done, started and error, with
\* status queued, done 0 and error null, and no other field of the job
\* record (no credentials, no rule snapshot, nothing else).
C11_CreatedSummaryOnly ==
    response.status = 201 =>
        /\ DOMAIN response.body = SummaryFields
        /\ response.body.status = "queued"
        /\ response.body.done = 0
        /\ response.body.error = Null

Details == {"logs", "productCodes", "apiConfig", "wooConfig", "settings"}

\* What a job was asked to do, its credentials aside.
TaskOf(id) ==
    [kind |-> jobs[id].kind, productCodes |-> jobs[id].productCodes,
     settings |-> jobs[id].settings]

\* What the outside world has answered to the calls of a job so far.
OutcomesOf(id) ==
    [k \in 1..Len(calls[id]) |->
        [kind |-> calls[id][k].kind, i |-> calls[id][k].i,
         result |-> calls[id][k].result, reply |-> calls[id][k].reply]]

\* The body of the status response without the job id.
StatusView(id) ==
    LET body == getJob(id).body
    IN [k \in DOMAIN body \ {"id"} |-> body[k]]

\* C12: the status response of a job holds no logs, no product codes, no
\* credentials and no settings; and two jobs with the same task that differ
\* only in their credentials, have seen the same external outcomes and stand
\* at the same point of their run give the same status response (the id
\* aside) and the same logs response.
C12_ResponsesHideCredentials ==
    /\ \A id \in DOMAIN jobs : DOMAIN getJob(id).body \cap Details = {}
    /\ \A a, b \in DOMAIN jobs :
          (/\ TaskOf(a) = TaskOf(b)
           /\ runner[a].pc = runner[b].pc
           /\ OutcomesOf(a) = OutcomesOf(b))
              => /\ StatusView(a) = StatusView(b)
                 /\ getJobLogs(a).body = getJobLogs(b).body

\* Ids a client may ask for: ids start-sync can hand out, names every object
\* inherits, and a string that is neither.
RequestIds ==
    {JobIdOf(n) : n \in 1..(MaxCodes + 1)} \cup InheritedNames \cup {<<"x">>}

\* C13: no step removes a job from the store; the ids in the store are the
\* ids that 201 answers have returned; and after every step both GET
\* handlers answer 200 for the ids in the store and 404 for every other id.
C13_NotFoundUnlessCreated ==
    [][/\ DOMAIN jobs \subseteq DOMAIN jobs'
       /\ \A id \in DOMAIN jobs' \ DOMAIN jobs :
             response'.status = 201 /\ response'.body.id = id
       /\ \A id \in RequestIds :
             /\ getJob(id)'.status = IF id \in DOMAIN jobs' THEN 200 ELSE 404
             /\ getJobLogs(id)'.status = IF id \in DOMAIN jobs' THEN 200 ELSE 404]_vars

\* The sequence number an id carries: the value of its digits.
SeqOf(id) ==
    LET RECURSIVE Value(_)
        Value(ds) == IF ds = <<>> THEN 0
                     ELSE 10 * Value(SubSeq(ds, 1, Len(ds) - 1)) + ds[Len(ds)]
    IN Value(SubSeq(id, 5, Len(id)))

\* C14: every record is stored under its own id and no step removes one; a
\* step that hands out a sequence number adds exactly one record, under an
\* id that was not in the store and whose sequence number is larger than that
\* of every id in the store, and leaves every other record as it was; a step
\* that hands out none (a rejected submission, among others) adds no record.
C14_IdsUniqueMonotone ==
    [][/\ DOMAIN jobs \subseteq DOMAIN jobs'
       /\ \A id \in DOMAIN jobs' : jobs'[id].id = id
       /\ jobCounter' = jobCounter => DOMAIN jobs' = DOMAIN jobs
       /\ jobCounter' # jobCounter =>
             /\ jobCounter' > jobCounter
             /\ \E new \in DOMAIN jobs' \ DOMAIN jobs :
                   /\ DOMAIN jobs' = DOMAIN jobs \cup {new}
                   /\ \A old \in DOMAIN jobs :
                         /\ SeqOf(old) < SeqOf(new)
                         /\ jobs'[old] = jobs[old]]_vars

\* A second job was accepted while the first job was already running: two
\* records under two ids, the later one with the larger sequence number.
C14_Witness ==
    /\ response.status = 201
    /\ Cardinality(DOMAIN jobs) = 2
    /\ \E id \in DOMAIN jobs :
          /\ id # response.body.id
          /\ jobs[id].status = "running"
          /\ SeqOf(id) < SeqOf(response.body.id)

\* A value is empty or absent.
Absent(v) == ~v.def \/ v.s = <<>>

\* The condition of a rule holds for a product, as the specification defines
\* it: both values present, compared without regard to case.
Holds(product, rule) ==
    LET v == RuleProductValue(product, rule)
        r == rule.conditionValue
        same == toLowerCase(v.s) = toLowerCase(r.s)
        within == includes(toLowerCase(v.s), toLowerCase(r.s))
    IN /\ ~Absent(v)
       /\ ~Absent(r)
       /\ \/ rule.conditionOperator = "is" /\ same
          \/ rule.conditionOperator = "is_not" /\ ~same
          \/ rule.conditionOperator = "contains" /\ within
          \/ rule.conditionOperator = "does_not_contain" /\ ~within

\* C15: the margin evaluator returns the margin of the first rule in list
\* order whose condition holds, and the default margin if no condition
\* holds; the rule it picks never has an empty or absent value on either
\* side, whatever its operator.
C15_FirstMatchingRule ==
    evalResult.returned /\ evalArgs.fn = "getApplicableMargin" =>
        LET product == evalArgs.product
            rs == evalArgs.rules.conditionalRules
            holding == {i \in 1..Len(rs) : Holds(product, rs[i])}
        IN /\ holding = {} => evalResult.value = evalArgs.rules.defaultMargin
           /\ holding # {} =>
                 \E i \in holding :
                    /\ \A j \in holding : i <= j
                    /\ evalResult.value = rs[i].margin
                    /\ ~Absent(RuleProductValue(product, rs[i]))
                    /\ ~Absent(rs[i].conditionValue)

\* The evaluator has passed over an is_not rule whose product value is
\* absent and returned the margin of the second rule.
C15_Witness ==
    /\ evalResult.returned
    /\ evalArgs.fn = "getApplicableMargin"
    /\ Len(evalArgs.rules.conditionalRules) = 2
    /\ evalArgs.rules.conditionalRules[1].conditionOperator = "is_not"
    /\ evalArgs.rules.conditionalRules[1].conditionField = "category"
    /\ ~Absent(evalArgs.rules.conditionalRules[1].conditionValue)
    /\ Absent(evalArgs.product.supplier_category)
    /\ evalResult.value = evalArgs.rules.conditionalRules[2].margin

\* Where a name, or a value of a name, is first seen in the variants: the
\* least (variant, entry) position, variant first.
Positions(variants) ==
    {<<i, k>> : i \in 1..Len(variants), k \in 1..2} \cap
        {p \in (1..Len(variants)) \X (1..2) :
            p[2] <= Len(variants[p[1]].attrs)}

Before(p, q) == p[1] < q[1] \/ (p[1] = q[1] /\ p[2] < q[2])

FirstSeen(variants, hit(_)) ==
    CHOOSE p \in {q \in Positions(variants) : hit(variants[q[1]].attrs[q[2]])} :
        \A q \in Positions(variants) :
            hit(variants[q[1]].attrs[q[2]]) => (p = q \/ Before(p, q))

NamesSeen(variants) ==
    {variants[p[1]].attrs[p[2]][1] : p \in Positions(variants)}

ValuesSeen(variants, name) ==
    {variants[p[1]].attrs[p[2]][2] :
        p \in {q \in Positions(variants) :
                  variants[q[1]].attrs[q[2]][1] = name}}

\* C16: a product of zero or one variant becomes a simple product without
\* variation payloads; a product of two or more variants becomes a variable
\* product with one variation payload per variant, in variant order and with
\* the variant's own attributes; the attributes of the variable product are
\* the names seen in the variants, each once, in first-seen order, with
\* position equal to the index; and the options of each attribute are the
\* values seen for it, each once, in first-seen order.
C16_SimpleOrVariable ==
    evalResult.returned /\ evalArgs.fn = "transformProductForWoo" =>
        LET variants == evalArgs.product.variants
            data == evalResult.value.productData
            variations == evalResult.value.variationsData
            attributes == data.attributes
        IN IF Len(variants) <= 1
           THEN data.type = "simple" /\ variations = <<>>
           ELSE /\ data.type = "variable"
                /\ Len(variations) = Len(variants)
                /\ \A i \in 1..Len(variants) :
                      /\ variations[i].sku = variants[i].sku
                      /\ variations[i].attributes =
                            [k \in 1..Len(variants[i].attrs) |->
                                [name |-> variants[i].attrs[k][1],
                                 option |-> variants[i].attrs[k][2]]]
                /\ {attributes[k].name : k \in 1..Len(attributes)}
                      = NamesSeen(variants)
                /\ \A k \in 1..Len(attributes) :
                      /\ attributes[k].position = k - 1
                      /\ \A l \in (k + 1)..Len(attributes) :
                            Before(
                              FirstSeen(variants,
                                  LAMBDA e : e[1] = attributes[k].name),
                              FirstSeen(variants,
                                  LAMBDA e : e[1] = attributes[l].name))
                      /\ {attributes[k].options[o] :
                              o \in 1..Len(attributes[k].options)}
                            = ValuesSeen(variants, attributes[k].name)
                      /\ \A o \in 1..Len(attributes[k].options) :
                            \A u \in (o + 1)..Len(attributes[k].options) :
                               Before(
                                 FirstSeen(variants,
                                     LAMBDA e : e = <<attributes[k].name,
                                                      attributes[k].options[o]>>),
                                 FirstSeen(variants,
                                     LAMBDA e : e = <<attributes[k].name,
                                                      attributes[k].options[u]>>))

\* A product of three variants came back variable: its second attribute was
\* first seen in the second variant, and one attribute has two options
\* although three variants carry it.
C16_Witness ==
    /\ evalResult.returned
    /\ evalArgs.fn = "transformProductForWoo"
    /\ Len(evalArgs.product.variants) = 3
    /\ evalResult.value.productData.type = "variable"
    /\ Len(evalResult.value.productData.attributes) = 2
    /\ Len(evalArgs.product.variants[1].attrs) = 1
    /\ \E k \in 1..2 :
          /\ Len(evalResult.value.productData.attributes[k].options) = 2
          /\ \A i \in 1..3 :
                \E e \in 1..Len(evalArgs.product.variants[i].attrs) :
                    evalArgs.product.variants[i].attrs[e][1]
                        = evalResult.value.productData.attributes[k].name

\* A product of exactly one variant came back simple.
C16_WitnessOneVariant ==
    /\ evalResult.returned
    /\ evalArgs.fn = "transformProductForWoo"
    /\ Len(evalArgs.product.variants) = 1
    /\ evalResult.value.productData.type = "simple"

\* The log entry reports a variable product created with its variations.
ReportsVariations(entry) ==
    entry.status = "success" /\ entry.message[1] = "Synced variable product"

\* C17: a batch creation is issued only after the creation of the parent has
\* succeeded, and under the id that creation returned; a success entry that
\* reports N variations stands only where the parent creation and a batch
\* creation of N variations both took place and succeeded; and where a
\* storefront call was rejected the entry of the code is a failed one.
C17_VariationsReportedOnlyIfCreated ==
    \A id \in DOMAIN jobs :
        /\ \A b \in 1..Len(calls[id]) :
              calls[id][b].kind = "batch" =>
                  /\ calls[id][b - 1].kind = "product"
                  /\ calls[id][b - 1].i = calls[id][b].i
                  /\ calls[id][b - 1].result = "ok"
                  /\ calls[id][b - 1].reply.id = calls[id][b].parent
        /\ \A i \in 1..Len(jobs[id].logs) :
              ReportsVariations(jobs[id].logs[i]) =>
                  \E b \in CallsOf(id, i) :
                      /\ calls[id][b].kind = "batch"
                      /\ calls[id][b].result = "ok"
                      /\ Len(calls[id][b].create) = jobs[id].logs[i].message[4]
        /\ \A k \in 1..Len(calls[id]) :
              (calls[id][k].kind # "fetch" /\ calls[id][k].result = "failed") =>
                  /\ Len(jobs[id].logs) >= calls[id][k].i
                  /\ jobs[id].logs[calls[id][k].i].status = "failed"

\* C18: after every step only the last call of a job can be outstanding; a
\* step that issues the fetch of item i finds i - 1 items logged and counted;
\* a step that issues a storefront call for an item does so after the fetch
\* of that item has succeeded; and no storefront call stands next to a
\* failed fetch of the same item. (A step that leaves the calls as they are
\* has nothing to show.)
C18_CallsSequential ==
    [][UNCHANGED calls \/ \A id \in DOMAIN calls' :
          LET cs == calls'[id]
              old == CallsBefore(id)
          IN /\ \A k \in 1..(Len(cs) - 1) : cs[k].result # "pending"
             /\ \A k \in (Len(old) + 1)..Len(cs) :
                   /\ cs[k].kind = "fetch" =>
                         /\ id \in DOMAIN jobs
                         /\ jobs[id].done = cs[k].i - 1
                         /\ Len(jobs[id].logs) = cs[k].i - 1
                   /\ cs[k].kind # "fetch" =>
                         \E f \in 1..(k - 1) :
                             /\ cs[f].kind = "fetch"
                             /\ cs[f].i = cs[k].i
                             /\ cs[f].result = "ok"
             /\ \A k \in 1..Len(cs) :
                   cs[k].kind # "fetch" =>
                       ~\E f \in 1..Len(cs) :
                           /\ cs[f].kind = "fetch"
                           /\ cs[f].i = cs[k].i
                           /\ cs[f].result = "failed"]_vars

\* The fetch of the first code failed, the fetch of the second succeeded,
\* and the creation of the second product is outstanding.
C18_Witness ==
    \E id \in DOMAIN jobs :
        /\ Len(calls[id]) = 3
        /\ calls[id][1].kind = "fetch" /\ calls[id][1].result = "failed"
        /\ calls[id][2].kind = "fetch" /\ calls[id][2].result = "ok"
        /\ calls[id][3].kind = "product" /\ calls[id][3].result = "pending"
        /\ jobs[id].done = 1

\* The log entry item i of a job gets when the job runs alone and its calls
\* are answered as the calls cs were: a function of the job's own codes,
\* configuration and rules and of those answers.
EntryAlone(job, cs, i) ==
    LET code == job.productCodes.items[i]
        at(kind) == {k \in 1..Len(cs) : cs[k].i = i /\ cs[k].kind = kind}
        the(kind) == cs[CHOOSE k \in at(kind) : TRUE]
        failedWith(error) ==
            logEntry(code, "failed", <<"Error", errorMessage(error)>>)
    IN IF the("fetch").result = "failed"
       THEN IF the("fetch").reply = NoReply
            THEN failedWith(requestUrlError(job.apiConfig, code))
            ELSE failedWith(fetchError(the("fetch").reply, code))
       ELSE LET item == the("fetch").reply.item
                product == [item EXCEPT !.supplier_name = item.supplier]
                t == transformProductForWoo(product, job.settings)
            IN IF transformThrows(product, job.settings)
               THEN failedWith(PlainError(<<"TypeError">>))
               ELSE IF the("product").result = "failed"
               THEN failedWith(the("product").reply)
               ELSE IF t.variationsData = <<>>
               THEN logEntry(code, "success", simpleMessage(t.productData))
               ELSE IF at("batch") # {} /\ the("batch").result = "failed"
               THEN failedWith(the("batch").reply)
               ELSE logEntry(code, "success",
                             variableMessage(t.productData, t.variationsData))

\* A step that changes the record of a job does what a run alone does after
\* the same answers: it logs and counts nothing, or it appends the entry of
\* the next item and counts it; and when the run returns, every code is
\* counted and the status tells whether an entry is a failed one.
StepAsIfAlone(id) ==
    LET before == jobs[id]
        after == jobs'[id]
    IN /\ \/ after.logs = before.logs /\ after.done = before.done
          \/ /\ after.done = before.done + 1
             /\ after.logs =
                   Append(before.logs, EntryAlone(after, calls'[id], after.done))
       /\ IF runner'[id].pc = "returned"
          THEN /\ after.done = Len(after.productCodes.items)
               /\ after.status =
                     IF HasFailedEntry(after) THEN "failed" ELSE "completed"
          ELSE after.status = "running"

\* C19: a step that changes the record of a job is a step of that job's own
\* run (its runner moves); it changes the record, the runner and the calls
\* of no other job; and it leaves the job with the logs, done and status that
\* a run alone has after the same answers. (A job enters the store with no
\* log entry; a step that leaves the store as it is has nothing to show.)
C19_RunnersIsolated ==
    [][UNCHANGED jobs \/ \A id \in DOMAIN jobs :
          jobs'[id] # jobs[id] =>
              /\ runner'[id] # runner[id]
              /\ \A other \in DOMAIN jobs \ {id} :
                    /\ jobs'[other] = jobs[other]
                    /\ runner'[other] = runner[other]
                    /\ calls'[other] = calls[other]
              /\ StepAsIfAlone(id)]_vars

\* Two runs have interleaved and returned: the first job failed, the second,
\* submitted while the first was running, completed.
C19_Witness ==
    \E a, b \in DOMAIN jobs :
        /\ SeqOf(a) < SeqOf(b)
        /\ runner[a].pc = "returned" /\ jobs[a].status = "failed"
        /\ runner[b].pc = "returned" /\ jobs[b].status = "completed"
        /\ jobs[b].started = Timestamp

\* C20: in every state the error of a job is non-null exactly if its logs
\* hold a failed entry; and a queued job has done 0, no log entry, a null
\* error and no external call issued.
C20_ErrorIffFailedEntry ==
    \A id \in DOMAIN jobs :
        /\ jobs[id].error # Null <=> HasFailedEntry(jobs[id])
        /\ jobs[id].status = "queued" =>
              /\ jobs[id].done = 0
              /\ jobs[id].logs = <<>>
              /\ jobs[id].error = Null
              /\ calls[id] = <<>>

\* In the middle of its run a job has logged a failed item and carries the
\* error, while a second job is still queued.
C20_Witness ==
    \E id, other \in DOMAIN jobs :
        /\ jobs[id].status = "running"
        /\ runner[id].pc = "delay"
        /\ HasFailedEntry(jobs[id])
        /\ jobs[id].error # Null
        /\ jobs[other].status = "queued"
====
